---- MODULE Spec2Model ----
(***************************************************************************)
(* A model of `ord wallet send` (src/src/subcommand/wallet/send.rs).       *)
(* One behaviour is one invocation of Send::run: the request (self,        *)
(* options) is fixed at construction, every call to a collaborator (chain  *)
(* index, node RPC, transaction builder) is one step that either returns a *)
(* value or raises, and `calls` records the calls in the order they are    *)
(* made.                                                                   *)
(***************************************************************************)
EXTENDS Integers, Sequences, FiniteSets, TLC

\* ---- bounds of the model -------------------------------------------------
\* The longest --utxo list a request carries.
MaxUtxo == 1
\* The most inscriptions the index reports for the wallet.
MaxInscriptions == 2

\* ---- value domains -------------------------------------------------------
\* Two outputs and two offsets: a satpoint can share its output with an
\* inscription without being the inscription's satpoint.
OutPoints == {1, 2}
Offsets == {0, 1}
SatPoints == [outpoint : OutPoints, offset : Offsets]
InscriptionIds == {"i0"}
Addresses == {"X"}
Amounts == {50000}
FeeRates == {2}
Postages == {10000}
ForceInputs == {<<>>, <<1>>}
UnsignedTransactions == {"unsigned"}
SignedHexes == {"signedA", "signedB"}
Txids == {"txidA", "txidB"}

\* Option<T>: None is the empty set, Some(x) the singleton.
None == {}
Some(x) == {x}
Unwrap(o) == CHOOSE x \in o : TRUE

\* Value of a transaction output on the chain (what the node and the index
\* both report for it).
TxOutValue(outpoint) == outpoint * 1000

\* BTreeMap<OutPoint, Amount>
EmptyMap == [o \in {} |-> 0]
Insert(map, k, v) == [o \in (DOMAIN map) \cup {k} |-> IF o = k THEN v ELSE map[o]]

RECURSIVE SeqsUpTo(_, _)
SeqsUpTo(S, n) ==
  IF n = 0 THEN {<<>>}
  ELSE LET shorter == SeqsUpTo(S, n - 1)
       IN shorter \cup {Append(s, x) : s \in shorter, x \in S}

\* ---- the request ---------------------------------------------------------
Outgoing ==
  [kind : {"SatPoint"}, satpoint : {Some(s) : s \in SatPoints}, id : {None}, amount : {None}]
  \cup [kind : {"InscriptionId"}, satpoint : {None}, id : {Some(i) : i \in InscriptionIds}, amount : {None}]
  \cup [kind : {"Amount"}, satpoint : {None}, id : {None}, amount : {Some(a) : a \in Amounts}]

Send ==
  [address : Addresses,
   outgoing : Outgoing,
   utxo : SeqsUpTo(OutPoints, MaxUtxo),
   coin_control : BOOLEAN,
   fee_rate : FeeRates,
   postage : {None} \cup {Some(p) : p \in Postages},
   force_input : ForceInputs]

Options == [ignore_outdated_index : BOOLEAN]

\* ---- answers of the chain-data collaborator --------------------------------
UnspentOutputSets == {[o \in S |-> TxOutValue(o)] : S \in SUBSET OutPoints}
InscriptionMaps ==
  UNION {[S -> InscriptionIds] : S \in {T \in SUBSET SatPoints : Cardinality(T) <= MaxInscriptions}}
\* The satpoints get_inscription_satpoint_by_id answers with.
InscriptionSatPoints == {s \in SatPoints : s.offset = 0}
OutPointSets == SUBSET OutPoints
LockedOutputSets == {{}, {1}}

VARIABLES
  self,                 \* the Send request
  options,              \* the Options the command runs with
  pc,                   \* position in Send::run
  wallet_unspent,       \* Option: what the index answers to get_unspent_outputs
  unspent_outputs_mut,  \* `let mut unspent_outputs` of line 47
  next_utxo,            \* position of the `for outpoint in &self.utxo` loop
  unspent_outputs,      \* `let unspent_outputs` of line 68
  locked_outputs,
  inscriptions,
  runic_outputs,
  satpoint,             \* Option: the resolved target
  change,               \* the change addresses derived so far
  unsigned_transaction, \* Option
  signed_tx,            \* Option
  result,               \* what run returns
  calls                 \* the collaborator calls made so far

vars == <<self, options, pc, wallet_unspent, unspent_outputs_mut, next_utxo,
          unspent_outputs, locked_outputs, inscriptions, runic_outputs, satpoint,
          change, unsigned_transaction, signed_tx, result, calls>>

Running == [status |-> "Running", transaction |-> "", error |-> ""]
Ok(txid) == [status |-> "Ok", transaction |-> txid, error |-> ""]
Err(message) == [status |-> "Err", transaction |-> "", error |-> message]

\* A panic (the indexing of line 61) aborts the command outside the Result.
Panic(message) == [status |-> "Panic", transaction |-> "", error |-> message]

\* One collaborator call: what was called, with what, whether it returned
\* (ok) or raised, and the value it returned.
Call(op, arg, ok, value) == [op |-> op, arg |-> arg, ok |-> ok, value |-> value]
Raised(op, arg) == Call(op, arg, FALSE, {})

Init ==
  /\ self \in Send
  /\ options \in Options
  /\ pc = "start"
  /\ wallet_unspent = None
  /\ unspent_outputs_mut = EmptyMap
  /\ next_utxo = 1
  /\ unspent_outputs = EmptyMap
  /\ locked_outputs = {}
  /\ inscriptions = EmptyMap
  /\ runic_outputs = {}
  /\ satpoint = None
  /\ change = <<>>
  /\ unsigned_transaction = None
  /\ signed_tx = None
  /\ result = Running
  /\ calls = <<>>


\* ---- helpers of Send::run ------------------------------------------------
\* `?` and bail!/ensure!: run returns, nothing else of the run's state moves.
Return(r) ==
  /\ pc' = "done"
  /\ result' = r

\* Where the `for outpoint in &self.utxo` loop stands once `i` is the next
\* position: another iteration, or line 66.
LoopPc(i) == IF i <= Len(self.utxo) THEN "utxo" ELSE "wallet"

RECURSIVE SortedSeq(_)
\* The iteration order of a BTreeMap's keys / a BTreeSet.
SortedSeq(S) ==
  IF S = {} THEN <<>>
  ELSE LET least == CHOOSE x \in S : \A y \in S : x <= y
       IN <<least>> \o SortedSeq(S \ {least})

Range(seq) == {seq[i] : i \in DOMAIN seq}

LockRequest_NoRunic(inscription_map, runic, unspent) ==
  LET all_inscription_outputs == {s.outpoint : s \in DOMAIN inscription_map}
      hosts(utxo) == utxo \in all_inscription_outputs
  IN SelectSeq(SortedSeq(DOMAIN unspent), hosts)

\* lines 145-155: the Vec handed to lock_unspent.
LockRequest(inscription_map, runic, unspent) ==
  LET all_inscription_outputs == {s.outpoint : s \in DOMAIN inscription_map}
      hosts(utxo) == utxo \in all_inscription_outputs
  IN SelectSeq(SortedSeq(DOMAIN unspent), hosts) \o SortedSeq(runic)

\* The first key of a BTreeMap<SatPoint, _>, in the order of its iteration.
FirstKey(inscription_map) ==
  CHOOSE k \in DOMAIN inscription_map :
    \A other \in DOMAIN inscription_map :
      \/ k.outpoint < other.outpoint
      \/ k.outpoint = other.outpoint /\ k.offset <= other.offset

IsInscriptionSatPoint_FirstOnly(s, inscription_map) ==
  DOMAIN inscription_map # {} /\ s = FirstKey(inscription_map)

\* lines 78-83: the loop over inscriptions.keys().
IsInscriptionSatPoint(s, inscription_map) ==
  \E inscription_satpoint \in DOMAIN inscription_map : s = inscription_satpoint

IsRunicOutput_FirstSat(s, runic) == s.offset = 0 /\ s.outpoint \in runic

\* lines 85-88: the condition the ensure! rejects.
IsRunicOutput(s, runic) == s.outpoint \in runic

\* The runic check of the SatPoint arm applied to the looked-up satpoint.
ResolvedById_RejectRunic(answer) ==
  IF answer # None /\ Unwrap(answer).outpoint \in runic_outputs THEN None ELSE answer

ResolvedById_OrDefault(answer) ==
  IF answer = None THEN Some([outpoint |-> 1, offset |-> 0]) ELSE answer

\* lines 92-94: what the lookup's Option leaves of the target (None: the
\* ok_or_else raises).
ResolvedById(answer) == answer

OutdatedIndexIgnored_Unchecked(opts) == FALSE

\* line 49: `else if options.ignore_outdated_index`
OutdatedIndexIgnored(opts) == opts.ignore_outdated_index

CardinalOptionsGiven_CoinControlOnly(request) == request.coin_control

\* line 96
CardinalOptionsGiven(request) == request.coin_control \/ request.utxo # <<>>

LockRefused_Never(answer) == FALSE

\* line 157: `if !client.lock_unspent(..)?`
LockRefused(answer) == ~answer

\* The transfer never dispatched.
SendAmountReady_Never == FALSE

SendAmountReady_Early ==
  \/ pc = "send_amount"
  \/ pc = "resolve" /\ self.outgoing.kind = "Amount"

\* line 100 runs once line 99 has returned Ok.
SendAmountReady == pc = "send_amount"

\* A step after the transfer that fails although the txid exists.
TransferResult_LateFailure(txid) == Err("failed after sendtoaddress")

\* line 101: Ok(Box::new(Output { transaction: txid }))
TransferResult(txid) == Ok(txid)

\* A second send_raw_transaction after the first one raised.
BroadcastReady_RetryOnce ==
  \/ pc = "broadcast"
  \/ /\ pc = "done"
     /\ result = Err("send_raw_transaction")
     /\ Cardinality({i \in DOMAIN calls : calls[i].op = "send_raw_transaction"}) < 2

\* line 134 runs once lines 130-132 have returned Ok.
BroadcastReady == pc = "broadcast"

BroadcastArgument_Unsigned == Unwrap(unsigned_transaction)

\* line 134: send_raw_transaction(&signed_tx)
BroadcastArgument == Unwrap(signed_tx)

PostageTarget_AlwaysDefault(request) == [kind |-> "Postage", amount |-> None]

\* lines 110-114
PostageTarget(request) ==
  IF request.postage # None
  THEN [kind |-> "ExactPostage", amount |-> request.postage]
  ELSE [kind |-> "Postage", amount |-> None]

\* Amount::to_btc: satoshis as a count of 1/100000000 bitcoin.
ToBtc(amount) == [sat |-> amount, per_btc |-> 100000000]

\* The builder left without the caller's forced inputs.
BuilderArguments_NoForcedInputs ==
  [satpoint |-> Unwrap(satpoint),
   inscriptions |-> inscriptions,
   unspent_outputs |-> unspent_outputs,
   locked_outputs |-> locked_outputs,
   runic_outputs |-> runic_outputs,
   address |-> self.address,
   change |-> change,
   fee_rate |-> self.fee_rate,
   postage |-> PostageTarget(self),
   force_input |-> <<>>]

\* The builder left without the wallet's locked outputs.
BuilderArguments_NoLocked ==
  [satpoint |-> Unwrap(satpoint),
   inscriptions |-> inscriptions,
   unspent_outputs |-> unspent_outputs,
   locked_outputs |-> {},
   runic_outputs |-> runic_outputs,
   address |-> self.address,
   change |-> change,
   fee_rate |-> self.fee_rate,
   postage |-> PostageTarget(self),
   force_input |-> self.force_input]

\* lines 116-127: the arguments of TransactionBuilder::new.
BuilderArguments ==
  [satpoint |-> Unwrap(satpoint),
   inscriptions |-> inscriptions,
   unspent_outputs |-> unspent_outputs,
   locked_outputs |-> locked_outputs,
   runic_outputs |-> runic_outputs,
   address |-> self.address,
   change |-> change,
   fee_rate |-> self.fee_rate,
   postage |-> PostageTarget(self),
   force_input |-> self.force_input]

\* The fee rate one position early, as conf_target.
SendToAddressArguments_FeeAsConfTarget ==
  [address |-> self.address,
   amount |-> ToBtc(Unwrap(self.outgoing.amount)),
   comment |-> None,
   comment_to |-> None,
   subtractfeefromamount |-> None,
   replaceable |-> None,
   conf_target |-> Some(self.fee_rate),
   estimate_mode |-> None,
   avoid_reuse |-> None,
   fee_rate |-> None]

\* lines 166-178: the parameters of the sendtoaddress call.
SendToAddressArguments ==
  [address |-> self.address,
   amount |-> ToBtc(Unwrap(self.outgoing.amount)),
   comment |-> None,
   comment_to |-> None,
   subtractfeefromamount |-> None,
   replaceable |-> None,
   conf_target |-> None,
   estimate_mode |-> None,
   avoid_reuse |-> None,
   fee_rate |-> Some(self.fee_rate)]

\* The n-th address the node hands out for change.
ChangeAddress(n) == IF n = 1 THEN "change1" ELSE "change2"

\* ---- Send::run, one action per step ---------------------------------------
\* lines 35-45: network check, Index::open, index.update, RPC client.
Open ==
  /\ pc = "start"
  /\ \/ \E failed \in {"require_network", "Index::open", "index.update",
                       "bitcoin_rpc_client_for_wallet_command"} :
          Return(Err(failed))
     \/ /\ pc' = "unspent"
        /\ UNCHANGED result
  /\ UNCHANGED <<self, options, wallet_unspent, unspent_outputs_mut, next_utxo,
                 unspent_outputs, locked_outputs, inscriptions, runic_outputs,
                 satpoint, change, unsigned_transaction, signed_tx, calls>>

\* lines 47-48: with --coin-control the candidate map starts empty.
CoinControlUnspent ==
  /\ pc = "unspent"
  /\ self.coin_control
  /\ unspent_outputs_mut' = EmptyMap
  /\ pc' = LoopPc(1)
  /\ UNCHANGED <<self, options, wallet_unspent, next_utxo, unspent_outputs,
                 locked_outputs, inscriptions, runic_outputs, satpoint, change,
                 unsigned_transaction, signed_tx, result, calls>>

\* lines 49-52
IgnoreOutdatedIndex ==
  /\ pc = "unspent"
  /\ ~self.coin_control
  /\ OutdatedIndexIgnored(options)
  /\ Return(Err("--ignore-outdated-index only works in conjunction with --coin-control when sending"))
  /\ UNCHANGED <<self, options, wallet_unspent, unspent_outputs_mut, next_utxo,
                 unspent_outputs, locked_outputs, inscriptions, runic_outputs,
                 satpoint, change, unsigned_transaction, signed_tx, calls>>

\* lines 53-55: index.get_unspent_outputs(Wallet::load(&options)?)?
WalletUnspent ==
  /\ pc = "unspent"
  /\ ~self.coin_control
  /\ ~OutdatedIndexIgnored(options)
  /\ \/ /\ Return(Err("Wallet::load"))
        /\ UNCHANGED <<wallet_unspent, unspent_outputs_mut, calls>>
     \/ /\ Return(Err("get_unspent_outputs"))
        /\ calls' = Append(calls, Raised("get_unspent_outputs", {}))
        /\ UNCHANGED <<wallet_unspent, unspent_outputs_mut>>
     \/ \E answer \in UnspentOutputSets :
          /\ wallet_unspent' = Some(answer)
          /\ unspent_outputs_mut' = answer
          /\ calls' = Append(calls, Call("get_unspent_outputs", {}, TRUE, answer))
          /\ pc' = LoopPc(1)
          /\ UNCHANGED result
  /\ UNCHANGED <<self, options, next_utxo, unspent_outputs, locked_outputs,
                 inscriptions, runic_outputs, satpoint, change,
                 unsigned_transaction, signed_tx>>

\* lines 57-64: one iteration of the loop over --utxo.
PriceUtxo ==
  /\ pc = "utxo"
  /\ LET outpoint == self.utxo[next_utxo] IN
       \/ /\ Return(Err("get_raw_transaction"))
          /\ calls' = Append(calls, Raised("get_raw_transaction", outpoint))
          /\ UNCHANGED <<unspent_outputs_mut, next_utxo>>
       \/ \* the transaction has no output at index vout
          /\ Return(Panic("index out of bounds"))
          /\ calls' = Append(calls, Call("get_raw_transaction", outpoint, TRUE, {}))
          /\ UNCHANGED <<unspent_outputs_mut, next_utxo>>
       \/ /\ unspent_outputs_mut' = Insert(unspent_outputs_mut, outpoint, TxOutValue(outpoint))
          /\ calls' = Append(calls, Call("get_raw_transaction", outpoint, TRUE,
                                         Some(TxOutValue(outpoint))))
          /\ next_utxo' = next_utxo + 1
          /\ pc' = LoopPc(next_utxo + 1)
          /\ UNCHANGED result
  /\ UNCHANGED <<self, options, wallet_unspent, unspent_outputs, locked_outputs,
                 inscriptions, runic_outputs, satpoint, change,
                 unsigned_transaction, signed_tx>>

\* lines 66-68: Wallet::load, then the `let unspent_outputs` that shadows the
\* map built by lines 47-64. The index answers as it did at line 54.
GetUnspentOutputs ==
  /\ pc = "wallet"
  /\ \/ /\ Return(Err("Wallet::load"))
        /\ UNCHANGED <<wallet_unspent, unspent_outputs, calls>>
     \/ /\ Return(Err("get_unspent_outputs"))
        /\ calls' = Append(calls, Raised("get_unspent_outputs", {}))
        /\ UNCHANGED <<wallet_unspent, unspent_outputs>>
     \/ \E answer \in UnspentOutputSets :
          /\ wallet_unspent # None => answer = Unwrap(wallet_unspent)
          /\ wallet_unspent' = Some(answer)
          /\ unspent_outputs' = answer
          /\ calls' = Append(calls, Call("get_unspent_outputs", {}, TRUE, answer))
          /\ pc' = "locked"
          /\ UNCHANGED result
  /\ UNCHANGED <<self, options, unspent_outputs_mut, next_utxo, locked_outputs,
                 inscriptions, runic_outputs, satpoint, change,
                 unsigned_transaction, signed_tx>>

\* line 70
GetLockedOutputs ==
  /\ pc = "locked"
  /\ \/ /\ Return(Err("get_locked_outputs"))
        /\ calls' = Append(calls, Raised("get_locked_outputs", {}))
        /\ UNCHANGED locked_outputs
     \/ \E answer \in LockedOutputSets :
          /\ locked_outputs' = answer
          /\ calls' = Append(calls, Call("get_locked_outputs", {}, TRUE, answer))
          /\ pc' = "inscriptions"
          /\ UNCHANGED result
  /\ UNCHANGED <<self, options, wallet_unspent, unspent_outputs_mut, next_utxo,
                 unspent_outputs, inscriptions, runic_outputs, satpoint, change,
                 unsigned_transaction, signed_tx>>

\* line 72
GetInscriptions ==
  /\ pc = "inscriptions"
  /\ \/ /\ Return(Err("get_inscriptions"))
        /\ calls' = Append(calls, Raised("get_inscriptions", unspent_outputs))
        /\ UNCHANGED inscriptions
     \/ \E answer \in InscriptionMaps :
          /\ inscriptions' = answer
          /\ calls' = Append(calls, Call("get_inscriptions", unspent_outputs, TRUE, answer))
          /\ pc' = "runic"
          /\ UNCHANGED result
  /\ UNCHANGED <<self, options, wallet_unspent, unspent_outputs_mut, next_utxo,
                 unspent_outputs, locked_outputs, runic_outputs, satpoint, change,
                 unsigned_transaction, signed_tx>>

\* lines 74-75
GetRunicOutputs ==
  /\ pc = "runic"
  /\ LET outpoints == SortedSeq(DOMAIN unspent_outputs) IN
       \/ /\ Return(Err("get_runic_outputs"))
          /\ calls' = Append(calls, Raised("get_runic_outputs", outpoints))
          /\ UNCHANGED runic_outputs
       \/ \E answer \in OutPointSets :
            /\ runic_outputs' = answer
            /\ calls' = Append(calls, Call("get_runic_outputs", outpoints, TRUE, answer))
            /\ pc' = "resolve"
            /\ UNCHANGED result
  /\ UNCHANGED <<self, options, wallet_unspent, unspent_outputs_mut, next_utxo,
                 unspent_outputs, locked_outputs, inscriptions, satpoint, change,
                 unsigned_transaction, signed_tx>>

\* lines 78-91: Outgoing::SatPoint
ResolveSatPoint ==
  /\ pc = "resolve"
  /\ self.outgoing.kind = "SatPoint"
  /\ LET requested == Unwrap(self.outgoing.satpoint) IN
       IF IsInscriptionSatPoint(requested, inscriptions)
       THEN /\ Return(Err("inscriptions must be sent by inscription ID"))
            /\ UNCHANGED satpoint
       ELSE IF IsRunicOutput(requested, runic_outputs)
       THEN /\ Return(Err("runic outpoints may not be sent by satpoint"))
            /\ UNCHANGED satpoint
       ELSE /\ satpoint' = Some(requested)
            /\ pc' = "change"
            /\ UNCHANGED result
  /\ UNCHANGED <<self, options, wallet_unspent, unspent_outputs_mut, next_utxo,
                 unspent_outputs, locked_outputs, inscriptions, runic_outputs,
                 change, unsigned_transaction, signed_tx, calls>>

\* lines 92-94: Outgoing::InscriptionId
ResolveInscriptionId ==
  /\ pc = "resolve"
  /\ self.outgoing.kind = "InscriptionId"
  /\ LET id == Unwrap(self.outgoing.id) IN
       \/ /\ Return(Err("get_inscription_satpoint_by_id"))
          /\ calls' = Append(calls, Raised("get_inscription_satpoint_by_id", id))
          /\ UNCHANGED satpoint
       \/ \E answer \in {None} \cup {Some(found) : found \in InscriptionSatPoints} :
            /\ calls' = Append(calls, Call("get_inscription_satpoint_by_id", id, TRUE, answer))
            /\ IF ResolvedById(answer) = None
               THEN /\ Return(Err("Inscription {id} not found"))
                    /\ UNCHANGED satpoint
               ELSE /\ satpoint' = ResolvedById(answer)
                    /\ pc' = "change"
                    /\ UNCHANGED result
  /\ UNCHANGED <<self, options, wallet_unspent, unspent_outputs_mut, next_utxo,
                 unspent_outputs, locked_outputs, inscriptions, runic_outputs,
                 change, unsigned_transaction, signed_tx>>

\* lines 95-98: Outgoing::Amount with --coin-control or --utxo
RejectCardinalOptions ==
  /\ pc = "resolve"
  /\ self.outgoing.kind = "Amount"
  /\ CardinalOptionsGiven(self)
  /\ Return(Err("--coin_control and --utxo don't work when sending cardinals"))
  /\ UNCHANGED <<self, options, wallet_unspent, unspent_outputs_mut, next_utxo,
                 unspent_outputs, locked_outputs, inscriptions, runic_outputs,
                 satpoint, change, unsigned_transaction, signed_tx, calls>>

\* line 99 and lines 139-162: Send::lock_inscriptions
LockInscriptions ==
  /\ pc = "resolve"
  /\ self.outgoing.kind = "Amount"
  /\ ~CardinalOptionsGiven(self)
  /\ LET request == LockRequest(inscriptions, runic_outputs, unspent_outputs) IN
       \/ /\ Return(Err("lock_unspent"))
          /\ calls' = Append(calls, Raised("lock_unspent", request))
       \/ \E answer \in BOOLEAN :
            /\ calls' = Append(calls, Call("lock_unspent", request, TRUE, answer))
            /\ IF LockRefused(answer)
               THEN Return(Err("failed to lock UTXOs"))
               ELSE /\ pc' = "send_amount"
                    /\ UNCHANGED result
  /\ UNCHANGED <<self, options, wallet_unspent, unspent_outputs_mut, next_utxo,
                 unspent_outputs, locked_outputs, inscriptions, runic_outputs,
                 satpoint, change, unsigned_transaction, signed_tx>>

\* lines 100-101 and lines 164-180: Send::send_amount
SendAmount ==
  /\ SendAmountReady
  /\ \/ /\ Return(Err("sendtoaddress"))
        /\ calls' = Append(calls, Raised("sendtoaddress", SendToAddressArguments))
     \/ \E txid \in Txids :
          /\ Return(TransferResult(txid))
          /\ calls' = Append(calls, Call("sendtoaddress", SendToAddressArguments, TRUE, txid))
  /\ UNCHANGED <<self, options, wallet_unspent, unspent_outputs_mut, next_utxo,
                 unspent_outputs, locked_outputs, inscriptions, runic_outputs,
                 satpoint, change, unsigned_transaction, signed_tx>>

\* lines 105-108: one of the two get_change_address calls
GetChangeAddress ==
  /\ pc = "change"
  /\ \/ /\ Return(Err("get_change_address"))
        /\ calls' = Append(calls, Raised("get_change_address", {}))
        /\ UNCHANGED change
     \/ LET address == ChangeAddress(Len(change) + 1) IN
          /\ change' = Append(change, address)
          /\ calls' = Append(calls, Call("get_change_address", {}, TRUE, address))
          /\ pc' = IF Len(change) + 1 = 2 THEN "build" ELSE "change"
          /\ UNCHANGED result
  /\ UNCHANGED <<self, options, wallet_unspent, unspent_outputs_mut, next_utxo,
                 unspent_outputs, locked_outputs, inscriptions, runic_outputs,
                 satpoint, unsigned_transaction, signed_tx>>

\* lines 110-128: TransactionBuilder::new(...).build_transaction()
BuildTransaction ==
  /\ pc = "build"
  /\ \/ /\ Return(Err("build_transaction"))
        /\ calls' = Append(calls, Raised("build_transaction", BuilderArguments))
        /\ UNCHANGED unsigned_transaction
     \/ \E built \in UnsignedTransactions :
          /\ unsigned_transaction' = Some(built)
          /\ calls' = Append(calls, Call("build_transaction", BuilderArguments, TRUE, built))
          /\ pc' = "sign"
          /\ UNCHANGED result
  /\ UNCHANGED <<self, options, wallet_unspent, unspent_outputs_mut, next_utxo,
                 unspent_outputs, locked_outputs, inscriptions, runic_outputs,
                 satpoint, change, signed_tx>>

\* lines 130-132
SignTransaction ==
  /\ pc = "sign"
  /\ LET unsigned == Unwrap(unsigned_transaction) IN
       \/ /\ Return(Err("sign_raw_transaction_with_wallet"))
          /\ calls' = Append(calls, Raised("sign_raw_transaction_with_wallet", unsigned))
          /\ UNCHANGED signed_tx
       \/ \E hex \in SignedHexes :
            /\ signed_tx' = Some(hex)
            /\ calls' = Append(calls, Call("sign_raw_transaction_with_wallet", unsigned,
                                           TRUE, hex))
            /\ pc' = "broadcast"
            /\ UNCHANGED result
  /\ UNCHANGED <<self, options, wallet_unspent, unspent_outputs_mut, next_utxo,
                 unspent_outputs, locked_outputs, inscriptions, runic_outputs,
                 satpoint, change, unsigned_transaction>>

\* lines 134-136
Broadcast ==
  /\ BroadcastReady
  /\ LET hex == BroadcastArgument IN
       \/ /\ Return(Err("send_raw_transaction"))
          /\ calls' = Append(calls, Raised("send_raw_transaction", hex))
       \/ \E txid \in Txids :
            /\ Return(Ok(txid))
            /\ calls' = Append(calls, Call("send_raw_transaction", hex, TRUE, txid))
  /\ UNCHANGED <<self, options, wallet_unspent, unspent_outputs_mut, next_utxo,
                 unspent_outputs, locked_outputs, inscriptions, runic_outputs,
                 satpoint, change, unsigned_transaction, signed_tx>>

Next ==
  \/ Open
  \/ CoinControlUnspent
  \/ IgnoreOutdatedIndex
  \/ WalletUnspent
  \/ PriceUtxo
  \/ GetUnspentOutputs
  \/ GetLockedOutputs
  \/ GetInscriptions
  \/ GetRunicOutputs
  \/ ResolveSatPoint
  \/ ResolveInscriptionId
  \/ RejectCardinalOptions
  \/ LockInscriptions
  \/ SendAmount
  \/ GetChangeAddress
  \/ BuildTransaction
  \/ SignTransaction
  \/ Broadcast

Spec == Init /\ [][Next]_vars

\* No step of run reads self.postage or self.force_input except to hand them
\* to the builder, so the properties that are not about these two fields
\* are followed for one value of each.
FairInit ==
  /\ Init
  /\ self.postage = None
  /\ self.force_input = <<>>

RunSpec == FairInit /\ [][Next]_vars

\* run is one synchronous thread: while a step is possible (the collaborator
\* it waits for returns or raises) it is taken.
FairSpec == RunSpec /\ WF_vars(Next)


\* ---- vocabulary of the properties ------------------------------------------
\* The positions of the calls of one collaborator operation.
CallsOf(op) == {i \in DOMAIN calls : calls[i].op = op}
\* ... of those that returned.
Returned(op) == {i \in CallsOf(op) : calls[i].ok}
Called(op) == CallsOf(op) # {}

Finished == pc = "done"
Failed == Finished /\ result.status \in {"Err", "Panic"}

\* The error classes of the design, as the messages run returns.
InvalidRequest == {"--coin_control and --utxo don't work when sending cardinals"}
InvalidTarget == {"inscriptions must be sent by inscription ID",
                  "runic outpoints may not be sent by satpoint"}
NotFound == {"Inscription {id} not found"}
LockFailed == {"failed to lock UTXOs", "lock_unspent"}

\* The direct-transfer path: an Outgoing::Amount request.
IsAmount == self.outgoing.kind = "Amount"
IsSatPoint == self.outgoing.kind = "SatPoint"
IsInscriptionId == self.outgoing.kind = "InscriptionId"

\* The chain data has been read (lines 68-75 returned) and resolution is
\* under way or over.
ChainDataRead == Returned("get_runic_outputs") # {}

\* What the chain-data collaborator answered.
AnswerOf(op) == calls[CHOOSE i \in Returned(op) : \A j \in Returned(op) : j <= i].value
OutputsOf(inscription_map) == {s.outpoint : s \in DOMAIN inscription_map}

\* C1: on the direct-transfer path sendtoaddress is issued only after a
\* lock_unspent call for the protected outputs has returned true.
C1_LockBeforeTransfer ==
  \A i \in CallsOf("sendtoaddress") :
    \E j \in Returned("lock_unspent") :
      /\ j < i
      /\ calls[j].value = TRUE
      /\ calls[j].arg = LockRequest(AnswerOf("get_inscriptions"),
                                    AnswerOf("get_runic_outputs"),
                                    AnswerOf("get_unspent_outputs"))

C1_Witness ==
  /\ IsAmount
  /\ result.status = "Ok"
  /\ Called("sendtoaddress")
  /\ \E j \in Returned("lock_unspent") : calls[j].arg # <<>>

\* C2: if lock_unspent returns false or raises, the request ends Failed with
\* LockFailed and sendtoaddress is never called.
C2_LockFailureIsFatal ==
  (\E j \in CallsOf("lock_unspent") : ~calls[j].ok \/ calls[j].value = FALSE)
    => /\ Failed
       /\ result.error \in LockFailed
       /\ ~Called("sendtoaddress")

C2_Witness ==
  /\ \E j \in Returned("lock_unspent") : calls[j].value = FALSE
  /\ Failed

\* C3: the outputs passed to lock_unspent are exactly the unspent outputs
\* that host an inscription together with every runic output.
C3_LockRequestIsProtectedSet ==
  \A j \in CallsOf("lock_unspent") :
    Range(calls[j].arg) =
      (OutputsOf(AnswerOf("get_inscriptions")) \cap DOMAIN AnswerOf("get_unspent_outputs"))
        \cup AnswerOf("get_runic_outputs")

\* An inscription on an output that is not unspent, one on an unspent output,
\* a runic output that is not unspent: each is there.
C3_Witness ==
  /\ Called("lock_unspent")
  /\ OutputsOf(inscriptions) \ DOMAIN unspent_outputs # {}
  /\ OutputsOf(inscriptions) \cap DOMAIN unspent_outputs # {}
  /\ runic_outputs \ DOMAIN unspent_outputs # {}


Requested == Unwrap(self.outgoing.satpoint)
ConstructionCalls == {"get_change_address", "build_transaction",
                      "sign_raw_transaction_with_wallet", "send_raw_transaction"}
NoConstruction == \A i \in DOMAIN calls : calls[i].op \notin ConstructionCalls

\* C4: an Outgoing::SatPoint equal to a key of the inscription map fails with
\* InvalidTarget; change addresses, builder, signing and broadcast are never
\* invoked.
C4_InscriptionSatPointRejected ==
  (/\ IsSatPoint
   /\ Returned("get_inscriptions") # {}
   /\ Requested \in DOMAIN AnswerOf("get_inscriptions"))
    => /\ NoConstruction
       /\ ChainDataRead =>
            \/ pc = "resolve"
            \/ Failed /\ result.error \in InvalidTarget

\* The inscription check decides: the satpoint's output is not runic.
C4_Witness ==
  /\ IsSatPoint
  /\ Failed
  /\ result.error = "inscriptions must be sent by inscription ID"
  /\ Requested \in DOMAIN inscriptions
  /\ Requested.outpoint \notin runic_outputs
  /\ Cardinality(DOMAIN inscriptions) = 2

\* C5: an Outgoing::SatPoint whose output is runic, at any offset, fails with
\* InvalidTarget; builder, signing and broadcast are never invoked.
C5_RunicSatPointRejected ==
  (/\ IsSatPoint
   /\ ChainDataRead
   /\ Requested.outpoint \in AnswerOf("get_runic_outputs"))
    => /\ NoConstruction
       /\ \/ pc = "resolve"
          \/ Failed /\ result.error \in InvalidTarget

C5_Witness ==
  /\ IsSatPoint
  /\ Failed
  /\ result.error = "runic outpoints may not be sent by satpoint"
  /\ Requested.offset # 0
  /\ Requested.outpoint \in runic_outputs

\* The arguments of the get_raw_transaction calls, in the order of the calls.
RECURSIVE ArgumentsOf(_, _)
ArgumentsOf(op, log) ==
  IF log = <<>> THEN <<>>
  ELSE IF Head(log).op = op THEN <<Head(log).arg>> \o ArgumentsOf(op, Tail(log))
  ELSE ArgumentsOf(op, Tail(log))

C7_UnknownInscriptionNotFound ==
  \A i \in Returned("get_inscription_satpoint_by_id") :
    calls[i].value = None
      => /\ i = Len(calls)
         /\ Failed
         /\ result.error \in NotFound

C7_Witness ==
  /\ IsInscriptionId
  /\ \E i \in Returned("get_inscription_satpoint_by_id") : calls[i].value = None
  /\ Finished

\* C8: when the builder returned a transaction and signing and broadcast
\* succeeded, the run holds exactly one signing call and exactly one
\* broadcast call, in that order after the build; signing is given the
\* built transaction, broadcast the hex signing returned, and the result is
\* the txid broadcast returned.
C8_SignThenBroadcastOnce ==
  /\ \A b \in Returned("send_raw_transaction") :
       /\ CallsOf("send_raw_transaction") = {b}
       /\ \E u \in Returned("build_transaction") :
            \E g \in Returned("sign_raw_transaction_with_wallet") :
              /\ CallsOf("build_transaction") = {u}
              /\ CallsOf("sign_raw_transaction_with_wallet") = {g}
              /\ u < g
              /\ g < b
              /\ calls[g].arg = calls[u].value
              /\ calls[b].arg = calls[g].value
              /\ result = Ok(calls[b].value)
  /\ (~IsAmount /\ Finished /\ result.status = "Ok")
       => Returned("send_raw_transaction") # {}

C8_Witness ==
  /\ ~IsAmount
  /\ Finished
  /\ result.status = "Ok"
  /\ Returned("send_raw_transaction") # {}

\* C9: with --coin-control the unspent-output set handed to the builder holds
\* no output outside the caller's --utxo list.
C9_CoinControlOnlyCallerOutputs ==
  \A u \in CallsOf("build_transaction") :
    self.coin_control => DOMAIN calls[u].arg.unspent_outputs \subseteq Range(self.utxo)

\* C10: without --coin-control the unspent-output set handed to the builder
\* holds every --utxo entry, priced by get_raw_transaction, besides the
\* index's unspent outputs.
C10_ExplicitUtxosMerged ==
  \A u \in CallsOf("build_transaction") :
    ~self.coin_control =>
      /\ DOMAIN AnswerOf("get_unspent_outputs") \subseteq DOMAIN calls[u].arg.unspent_outputs
      /\ \A k \in DOMAIN self.utxo :
           /\ self.utxo[k] \in DOMAIN calls[u].arg.unspent_outputs
           /\ calls[u].arg.unspent_outputs[self.utxo[k]] = TxOutValue(self.utxo[k])


PipelineCalls == {"lock_unspent", "build_transaction", "sign_raw_transaction_with_wallet",
                  "send_raw_transaction", "sendtoaddress"}

\* C11: every failure aborts the rest of the pipeline and nothing is retried:
\* a call that raised is the last call of the run and the run is Failed (so
\* no signing or broadcast after a failed build, no broadcast after a failed
\* signing), and each of lock_unspent, build, sign, broadcast and
\* sendtoaddress is called at most once.
C11_FailureAbortsNoRetry ==
  /\ \A i \in DOMAIN calls :
       ~calls[i].ok => (i = Len(calls) /\ Failed)
  /\ \A op \in PipelineCalls : Cardinality(CallsOf(op)) <= 1
  /\ (\E u \in CallsOf("build_transaction") : ~calls[u].ok)
       => ~Called("sign_raw_transaction_with_wallet") /\ ~Called("send_raw_transaction")
  /\ (\E g \in CallsOf("sign_raw_transaction_with_wallet") : ~calls[g].ok)
       => ~Called("send_raw_transaction")

\* The broadcast raised after build and signing went through.
C11_Witness ==
  /\ Failed
  /\ result.error = "send_raw_transaction"
  /\ Returned("sign_raw_transaction_with_wallet") # {}


OptionalTransferFields == {"comment", "comment_to", "subtractfeefromamount", "replaceable",
                           "conf_target", "estimate_mode", "avoid_reuse"}

\* C12: an Outgoing::Amount request without --coin-control and --utxo whose
\* lock succeeded makes exactly one sendtoaddress call, with the address,
\* the amount (in bitcoin) and the fee rate of the request and every other
\* field unset; the result is the txid the call returns; no change address,
\* builder, signing or broadcast call is made.
C12_DirectTransferIsOneCall ==
  (/\ IsAmount
   /\ \E j \in Returned("lock_unspent") : calls[j].value = TRUE)
    => /\ ~self.coin_control /\ self.utxo = <<>>
       /\ NoConstruction
       /\ Cardinality(CallsOf("sendtoaddress")) <= 1
       /\ Finished <=> Called("sendtoaddress")
       /\ \A i \in CallsOf("sendtoaddress") :
            /\ i = Len(calls)
            /\ calls[i].arg.address = self.address
            /\ calls[i].arg.amount.sat = Unwrap(self.outgoing.amount)
            /\ calls[i].arg.amount.per_btc = 100000000
            /\ calls[i].arg.fee_rate = Some(self.fee_rate)
            /\ \A field \in OptionalTransferFields : calls[i].arg[field] = None
            /\ IF calls[i].ok THEN result = Ok(calls[i].value) ELSE Failed

C12_Witness ==
  /\ IsAmount
  /\ Finished
  /\ result.status = "Ok"
  /\ \E i \in Returned("sendtoaddress") : result.transaction = calls[i].value
  /\ \E j \in Returned("lock_unspent") : Len(calls[j].arg) = 2


\* C13: the guard runs on the direct-amount path only: a run of an
\* Outgoing::SatPoint or Outgoing::InscriptionId request never calls
\* lock_unspent, and its builder receives the inscription map, the locked
\* outputs and the runic outputs as the chain data gave them.
C13_GuardOnlyOnDirectPath ==
  /\ Called("lock_unspent") => IsAmount
  /\ Called("build_transaction") => ~IsAmount
  /\ \A u \in CallsOf("build_transaction") :
       /\ calls[u].arg.inscriptions = AnswerOf("get_inscriptions")
       /\ calls[u].arg.locked_outputs = AnswerOf("get_locked_outputs")
       /\ calls[u].arg.runic_outputs = AnswerOf("get_runic_outputs")

C13_Witness ==
  /\ ~IsAmount
  /\ Finished
  /\ \E u \in CallsOf("build_transaction") :
       /\ DOMAIN calls[u].arg.inscriptions # {}
       /\ calls[u].arg.locked_outputs # {}
       /\ calls[u].arg.runic_outputs # {}


Terminal == Finished /\ result.status \in {"Ok", "Err", "Panic"}

\* C15: provided every collaborator call returns or raises, an invocation
\* reaches a terminal state, Done (Ok with a transaction id) or Failed,
\* never holds a result before it is finished, and never leaves the
\* terminal state.
C15_RunsToCompletion ==
  /\ <>Terminal
  /\ [](Finished <=> result.status # "Running")
  /\ [](result.status = "Ok" <=> result.transaction \in Txids)
  /\ [][Finished => UNCHANGED vars]_vars

C15_Witness ==
  /\ Terminal
  /\ result.status = "Ok"
  /\ ~IsAmount


\* The requests that change the wallet or the chain: locking outputs and the
\* two that send a transaction.
MutatingCalls == {"lock_unspent", "sendtoaddress", "send_raw_transaction"}
\* Every operation run asks of a collaborator.
KnownCalls == MutatingCalls \cup
  {"get_unspent_outputs", "get_raw_transaction", "get_locked_outputs", "get_inscriptions",
   "get_runic_outputs", "get_inscription_satpoint_by_id", "get_change_address",
   "build_transaction", "sign_raw_transaction_with_wallet"}

\* C16: a run that ends Failed produced no transaction id (neither
\* sendtoaddress nor send_raw_transaction returned), and the only mutating
\* request that went through is lock_unspent; run asks nothing of a
\* collaborator but the operations listed, none of which unlocks.
C16_FailedLeavesOnlyLocks ==
  /\ \A i \in DOMAIN calls : calls[i].op \in KnownCalls
  /\ Failed =>
       /\ result.transaction = ""
       /\ Returned("sendtoaddress") = {}
       /\ Returned("send_raw_transaction") = {}
       /\ \A i \in DOMAIN calls :
            (calls[i].op \in MutatingCalls /\ calls[i].ok) => calls[i].op = "lock_unspent"

\* The transfer raised after the outputs were locked: the locks stay.
C16_Witness ==
  /\ Failed
  /\ result.error = "sendtoaddress"
  /\ \E j \in Returned("lock_unspent") : calls[j].value = TRUE /\ calls[j].arg # <<>>


\* C17: the builder's target is the resolved target: the requested satpoint
\* for an Outgoing::SatPoint request, the satpoint the id lookup returned
\* for an Outgoing::InscriptionId request; the forced inputs are the
\* caller's list.
C17_BuilderGetsResolvedTarget ==
  \A u \in CallsOf("build_transaction") :
    /\ IsSatPoint => calls[u].arg.satpoint = Requested
    /\ IsInscriptionId =>
         /\ Returned("get_inscription_satpoint_by_id") # {}
         /\ AnswerOf("get_inscription_satpoint_by_id") = Some(calls[u].arg.satpoint)
    /\ calls[u].arg.force_input = self.force_input

C17_Witness ==
  /\ IsInscriptionId
  /\ self.force_input # <<>>
  /\ \E u \in CallsOf("build_transaction") : calls[u].arg.satpoint.outpoint = 2

\* C18: the postage policy handed to the builder is ExactPostage(p) exactly
\* when the request carries a postage p, and the default policy exactly
\* when it carries none.
C18_PostagePolicy ==
  \A u \in CallsOf("build_transaction") :
    /\ calls[u].arg.postage.kind \in {"ExactPostage", "Postage"}
    /\ calls[u].arg.postage.kind = "ExactPostage" <=> self.postage # None
    /\ calls[u].arg.postage.kind = "Postage" <=> self.postage = None
    /\ calls[u].arg.postage.amount = self.postage

C18_Witness ==
  /\ self.postage # None
  /\ \E u \in Returned("build_transaction") : calls[u].arg.postage.kind = "ExactPostage"

\* C19: an Outgoing::InscriptionId request resolves exactly when the lookup
\* returns a satpoint: it never fails with InvalidTarget, a lookup that
\* returned a satpoint is followed by the first change-address call, and
\* the resolved target is that satpoint, be it on a runic output or on an
\* output outside the unspent set.
C19_InscriptionIdResolvesByLookupOnly ==
  IsInscriptionId =>
    /\ result.error \notin InvalidTarget
    /\ \A i \in Returned("get_inscription_satpoint_by_id") :
         IF calls[i].value = None
         THEN Failed /\ result.error \in NotFound /\ satpoint = None
         ELSE /\ satpoint = calls[i].value
              /\ IF i = Len(calls) THEN pc = "change"
                 ELSE calls[i + 1].op = "get_change_address"
    /\ satpoint # None => Returned("get_inscription_satpoint_by_id") # {}

\* The builder is reached with a target on a runic output that is not unspent
\* and that is an inscription key.
C19_Witness ==
  /\ IsInscriptionId
  /\ \E u \in CallsOf("build_transaction") :
       /\ calls[u].arg.satpoint.outpoint \in runic_outputs
       /\ calls[u].arg.satpoint.outpoint \notin DOMAIN unspent_outputs
       /\ calls[u].arg.satpoint \in DOMAIN inscriptions

\* C20: with --ignore-outdated-index and without --coin-control the request
\* fails, whatever its Outgoing, before any collaborator call.
C20_IgnoreOutdatedIndexNeedsCoinControl ==
  (options.ignore_outdated_index /\ ~self.coin_control)
    => /\ calls = <<>>
       /\ pc \in {"start", "unspent", "done"}
       /\ Finished => Failed
       /\ result.status # "Ok"

C20_Witness ==
  /\ options.ignore_outdated_index
  /\ ~self.coin_control
  /\ IsInscriptionId
  /\ self.utxo # <<>>
  /\ Failed
  /\ result.error = "--ignore-outdated-index only works in conjunction with --coin-control when sending"

====
